---- MODULE Spec2Model ----
(***************************************************************************)
(* A model of ARVE's radial-velocity pipeline:                             *)
(*   src/arve/data.py                      Data.add_spec, Data.add_vrad,   *)
(*                                         Data.compute_vrad_ccf           *)
(*   src/arve/star/compute_vpsd.py         compute_vpsd                    *)
(*   src/arve/star/plot_vpsd_components.py plot_vpsd_components            *)
(*   src/arve/arve.py                      the session object              *)
(*                                                                         *)
(* Real numbers are exact: rationals [n, d] for the CCF and the densities, *)
(* dyadic numbers m * 2^e for the periodogram frequencies.  Floating-point *)
(* rounding is not modelled.                                               *)
(***************************************************************************)
EXTENDS Integers, Sequences, FiniteSets, TLC

(***************************************************************************)
(* Bounds of the model                                                     *)
(***************************************************************************)
\* largest number of interior periodogram samples in a modelled periodogram
MaxInterior == 3
\* log2 of the ratio of two neighbouring bin edges in the modelled periodograms
BinLog2Width == 3
\* largest number of components in star.vpsd_components
MaxComps == 3

(***************************************************************************)
(* Exact arithmetic                                                        *)
(***************************************************************************)
Abs(x) == IF x < 0 THEN -x ELSE x

RECURSIVE GCD(_, _)
GCD(a, b) == IF b = 0 THEN a ELSE GCD(b, a % b)

\* the rational n/d in lowest terms with a positive denominator; d = 0 is NaN
NaN == [n |-> 0, d |-> 0]
Rat(n, d) ==
    IF d = 0 THEN NaN
    ELSE LET g == GCD(Abs(n), Abs(d))
             s == IF d < 0 THEN -1 ELSE 1
         IN  [n |-> s * (n \div g), d |-> s * (d \div g)]
IsNaN(a) == a.d = 0
RInt(k) == [n |-> k, d |-> 1]
RAdd(a, b) == IF IsNaN(a) \/ IsNaN(b) THEN NaN ELSE Rat(a.n * b.d + b.n * a.d, a.d * b.d)
RSub(a, b) == IF IsNaN(a) \/ IsNaN(b) THEN NaN ELSE Rat(a.n * b.d - b.n * a.d, a.d * b.d)
RMul(a, b) == IF IsNaN(a) \/ IsNaN(b) THEN NaN ELSE Rat(a.n * b.n, a.d * b.d)
\* numpy division: x / 0 is nan for x = 0 (the only case the modelled inputs produce)
RDiv(a, b) == IF IsNaN(a) \/ IsNaN(b) \/ b.n = 0 THEN NaN ELSE Rat(a.n * b.d, a.d * b.n)
\* comparisons with NaN are false, as in IEEE arithmetic
RLt(a, b) == ~IsNaN(a) /\ ~IsNaN(b) /\ a.n * b.d < b.n * a.d
RLe(a, b) == ~IsNaN(a) /\ ~IsNaN(b) /\ a.n * b.d <= b.n * a.d
REq(a, b) == ~IsNaN(a) /\ ~IsNaN(b) /\ a.n * b.d = b.n * a.d

RECURSIVE RSum(_)
RSum(s) == IF Len(s) = 0 THEN RInt(0) ELSE RAdd(s[1], RSum(Tail(s)))

RECURSIVE ISum(_)
ISum(s) == IF Len(s) = 0 THEN 0 ELSE s[1] + ISum(Tail(s))

\* s[keep]: numpy boolean-mask indexing
RECURSIVE Filter(_, _)
Filter(s, keep) ==
    IF Len(s) = 0 THEN <<>>
    ELSE (IF keep[1] THEN <<s[1]>> ELSE <<>>) \o Filter(Tail(s), Tail(keep))

Range(s) == {s[k] : k \in DOMAIN s}
SetMin(S) == CHOOSE x \in S : \A y \in S : x <= y
SetMax(S) == CHOOSE x \in S : \A y \in S : x >= y

(***************************************************************************)
(* Python values held in data.spec                                         *)
(***************************************************************************)
\* A value is None, a Python list, or a numpy array; data holds the elements
\* in C order and size is their number.
None == [kind |-> "None"]
NdArray(rows) == [kind |-> "ndarray", rows |-> rows]
PyList(rows) == [kind |-> "list", rows |-> rows]
Size(a) == ISum([r \in DOMAIN a.rows |-> Len(a.rows[r])])
Elems(a) == UNION {Range(a.rows[r]) : r \in DOMAIN a.rows}

\* bool(x): "raise" is numpy's ValueError "The truth value of an array with
\* more than one element is ambiguous"
Truth(a) ==
    CASE a.kind = "None" -> "false"
      [] a.kind = "list" -> IF Len(a.rows) = 0 THEN "false" ELSE "true"
      [] a.kind = "ndarray" ->
            IF Size(a) > 1 THEN "raise"
            ELSE IF Size(a) = 1 /\ Elems(a) # {0} THEN "true" ELSE "false"

(***************************************************************************)
(* Data.compute_vrad_ccf: the input guard (data.py lines 99-119)           *)
(***************************************************************************)
SpecKeys == <<"time", "wave", "flux_val", "flux_err">>

\* `time and wave and flux_val and flux_err` under `not`: the operands' truth
\* values are taken from left to right, stopping at the first falsy one
RECURSIVE AndChain(_, _)
AndChain(d, k) ==
    LET t == Truth(d[SpecKeys[k]])
    IN  IF t = "raise" THEN "raise"
        ELSE IF t = "false" THEN "false"
        ELSE IF k = Len(SpecKeys) THEN "true"
        ELSE AndChain(d, k + 1)

\* the exception the guard raises, "none" when it lets the call through
InputGuard(d) ==
    IF ~d.present THEN "KeyError"
    ELSE LET t == AndChain(d, 1)
         IN  IF t = "raise" THEN "ValueError: truth value of an array is ambiguous"
             ELSE IF t = "false" THEN "ValueError: Spectral data must be added first."
             ELSE IF \E k \in DOMAIN SpecKeys : d[SpecKeys[k]].kind # "ndarray"
                  THEN "TypeError"
             ELSE "none"

(***************************************************************************)
(* Data.compute_vrad_ccf: mask, velocity grid, overlap filter, weights     *)
(* (data.py lines 146-178)                                                 *)
(***************************************************************************)
\* speed of light in the model's velocity unit: a trial velocity of 1 shifts a
\* wavelength by 5 per cent
c == 20

\* wave * (1 + v / c), elementwise; fails on an empty wavelength array
doppler_shift(wave, v) ==
    IF Len(wave) = 0 THEN [exc |-> "DomainError", val |-> <<>>]
    ELSE [exc |-> "none",
          val |-> [k \in DOMAIN wave |-> RMul(wave[k], Rat(c + v, c))]]

\* numpy.arange(vgrid[0], vgrid[1] + vgrid[2] / 2, vgrid[2]) for a positive step
Vrads(vgrid) ==
    LET n == Cardinality({k \in 0 .. (2 * (vgrid[2] - vgrid[1])) \div vgrid[3] + 1 :
                            2 * (vgrid[1] + k * vgrid[3]) < 2 * vgrid[2] + vgrid[3]})
    IN  [j \in 1 .. n |-> vgrid[1] + (j - 1) * vgrid[3]]

\* central wavelengths: np.array(mask["wave"])
MaskWave(mask) == [k \in DOMAIN mask |-> RInt(mask[k].wave)]

\* weights: ones when no weight column is named, else that column
MaskWeight(mask, weight) ==
    [k \in DOMAIN mask |-> IF weight = "None" THEN RInt(1) ELSE RInt(mask[k].weight)]

\* the lines that satisfy every named criterion (idx *= crit for each)
CriteriaIdx(mask, criteria) ==
    [k \in DOMAIN mask |-> \A q \in DOMAIN criteria : mask[k].crit[criteria[q]]]

\* an overlap filter that keeps a centre shifted onto the first or last pixel
OverlapIdxInclusive(wc, wave, vrads) ==
    LET lo == doppler_shift(wc, SetMin(Range(vrads))).val
        hi == doppler_shift(wc, SetMax(Range(vrads))).val
    IN  [k \in DOMAIN wc |-> RLe(RInt(SetMin(Range(wave))), lo[k])
                             /\ RLe(hi[k], RInt(SetMax(Range(wave))))]

\* the lines whose shifted centre lies inside the spectrum at both grid ends
OverlapIdx(wc, wave, vrads) ==
    LET lo == doppler_shift(wc, SetMin(Range(vrads))).val
        hi == doppler_shift(wc, SetMax(Range(vrads))).val
    IN  [k \in DOMAIN wc |-> RLt(RInt(SetMin(Range(wave))), lo[k])
                             /\ RLt(hi[k], RInt(SetMax(Range(wave))))]

\* a normalisation by the number of lines instead of their total weight
NormalizeByCount(w) == [k \in DOMAIN w |-> RDiv(w[k], RInt(Len(w)))]

\* w / np.sum(w)
Normalize(w) == [k \in DOMAIN w |-> RDiv(w[k], RSum(w))]

(***************************************************************************)
(* Data.compute_vrad_ccf: the CCF of one epoch (data.py lines 194-217)     *)
(***************************************************************************)
\* np.searchsorted(wave, x, side="right") on an increasing wave: the number
\* of pixels <= x
SearchSortedRight(wave, x) == Cardinality({p \in DOMAIN wave : RLe(RInt(wave[p]), x)})

\* whether Python accepts the 0-based index i into a sequence of length n
InRange(n, i) == -n <= i /\ i < n
\* a[i] for a 0-based Python index, negative indices counting from the end
PyAt(a, i) == IF i < 0 THEN a[Len(a) + i + 1] ELSE a[i + 1]

\* right and left indices and fractions of one shifted centre
Bracket(wave, x) ==
    LET i_r == SearchSortedRight(wave, x)
        i_l == i_r - 1
        ok == InRange(Len(wave), i_l) /\ InRange(Len(wave), i_r)
    IN  [x |-> x, i_l |-> i_l, i_r |-> i_r, ok |-> ok,
         f_r |-> IF ok
                 THEN RDiv(RSub(x, RInt(PyAt(wave, i_l))),
                           RInt(PyAt(wave, i_r) - PyAt(wave, i_l)))
                 ELSE NaN,
         f_l |-> IF ok
                 THEN RSub(RInt(1), RDiv(RSub(x, RInt(PyAt(wave, i_l))),
                                         RInt(PyAt(wave, i_r) - PyAt(wave, i_l))))
                 ELSE NaN]

\* the brackets of every mask line at every trial velocity
Brackets(wave, wc, vrads) ==
    [j \in DOMAIN vrads |->
        LET sh == doppler_shift(wc, vrads[j]).val
        IN  [k \in DOMAIN wc |-> Bracket(wave, sh[k])]]

\* ccf_val[j] = sum((flux[i_l] * f_l + flux[i_r] * f_r) * w)
CcfVal(flux, br, w) ==
    [j \in DOMAIN br |->
        RSum([k \in DOMAIN w |->
            RMul(RAdd(RMul(RInt(PyAt(flux, br[j][k].i_l)), br[j][k].f_l),
                      RMul(RInt(PyAt(flux, br[j][k].i_r)), br[j][k].f_r)),
                 w[k])])]

\* ccf_err[j] ** 2 = sum((err[i_l]**2 * f_l + err[i_r]**2 * f_r) * w**2)
CcfErrSq(err, br, w) ==
    [j \in DOMAIN br |->
        RSum([k \in DOMAIN w |->
            RMul(RAdd(RMul(RInt(PyAt(err, br[j][k].i_l) * PyAt(err, br[j][k].i_l)),
                           br[j][k].f_l),
                      RMul(RInt(PyAt(err, br[j][k].i_r) * PyAt(err, br[j][k].i_r)),
                           br[j][k].f_r)),
                 RMul(w[k], w[k]))])]

(***************************************************************************)
(* Data.compute_vrad_ccf: initial guess, fit and errors of one epoch       *)
(* (data.py lines 219-244)                                                 *)
(***************************************************************************)
\* np.max / np.min: NaN as soon as one element is NaN
NpMax(s) ==
    IF \E j \in DOMAIN s : IsNaN(s[j]) THEN NaN
    ELSE s[CHOOSE j \in DOMAIN s : \A q \in DOMAIN s : RLe(s[q], s[j])]
NpMin(s) ==
    IF \E j \in DOMAIN s : IsNaN(s[j]) THEN NaN
    ELSE s[CHOOSE j \in DOMAIN s : \A q \in DOMAIN s : RLe(s[j], s[q])]
\* np.argmin: the first index of the minimum, the first NaN if there is one
NpArgMin(s) ==
    IF \E j \in DOMAIN s : IsNaN(s[j])
    THEN SetMin({j \in DOMAIN s : IsNaN(s[j])})
    ELSE SetMin({j \in DOMAIN s : \A q \in DOMAIN s : RLe(s[j], s[q])})

\* np.where(ccf_val < (C0 - a0 / 2))[0]: the grid points below half depth
BelowHalfDepth(ccf_val) ==
    LET C0 == NpMax(ccf_val)
        a0 == RSub(C0, NpMin(ccf_val))
    IN  {j \in DOMAIN ccf_val : RLt(ccf_val[j], RSub(C0, RDiv(a0, RInt(2))))}

\* p0 = (C0, a0, b0, c0); indexing the empty np.where result raises IndexError
InitialGuess(ccf_val, vrads) ==
    LET C0 == NpMax(ccf_val)
        a0 == RSub(C0, NpMin(ccf_val))
        b0 == vrads[NpArgMin(ccf_val)]
        below == BelowHalfDepth(ccf_val)
    IN  IF below = {}
        THEN [exc |-> "IndexError", p0 |-> [C0 |-> C0, a0 |-> a0, b0 |-> b0, c0 |-> 0]]
        ELSE [exc |-> "none",
              p0 |-> [C0 |-> C0, a0 |-> a0, b0 |-> b0,
                      c0 |-> (b0 - vrads[SetMin(below)]) * 2]]

\* scipy's curve_fit is an external optimiser: it either raises RuntimeError
\* or returns moments somewhere near the guess; out chooses which
FitFails == [converged |-> FALSE, db |-> 0]
FitFinds(db) == [converged |-> TRUE, db |-> db]
curve_fit(p0, out) == [C |-> p0.C0, a |-> p0.a0, b |-> p0.b0 + out.db, c |-> p0.c0 + out.db]

\* np.gradient with unit spacing
Gradient(f) ==
    [j \in DOMAIN f |->
        IF Len(f) < 2 THEN NaN
        ELSE IF j = 1 THEN RSub(f[2], f[1])
        ELSE IF j = Len(f) THEN RSub(f[j], f[j - 1])
        ELSE RDiv(RSub(f[j + 1], f[j - 1]), RInt(2))]

\* vrad_err ** (-2) = sum(1 / |ccf_err * gradient(vrads) / gradient(ccf_val)| ** 2)
VradErrInvSq(ccf_err_sq, vrads, ccf_val) ==
    LET gv == Gradient([j \in DOMAIN vrads |-> RInt(vrads[j])])
        gc == Gradient(ccf_val)
    IN  RSum([j \in DOMAIN vrads |->
                RDiv(RMul(gc[j], gc[j]), RMul(ccf_err_sq[j], RMul(gv[j], gv[j])))])

(***************************************************************************)
(* Data.compute_vrad_ccf: the call after its input guard                   *)
(* (data.py lines 146-256)                                                 *)
(***************************************************************************)
\* what a call has done so far: the exception it raised and where, the mask
\* and grid it used, the epochs it entered, the CCFs it built, the guesses it
\* handed to curve_fit and the series it filled
NoRun ==
    [exc |-> "none", raisedAt |-> "none", maskRead |-> FALSE,
     wave |-> <<>>, wc_crit |-> <<>>, wc |-> <<>>, w_sel |-> <<>>, w |-> <<>>, vrads |-> <<>>,
     epochsEntered |-> 0, brackets |-> <<>>, ccfs |-> <<>>, ccf_errs |-> <<>>,
     guesses |-> <<>>, vrad_val |-> <<>>, vrad_err |-> <<>>, fwhm_val |-> <<>>]

\* the loop over the spectra from epoch acc.epochsEntered + 1 on
RECURSIVE EpochLoop(_, _)
EpochLoop(in, acc) ==
    LET i == acc.epochsEntered + 1
        a1 == [acc EXCEPT !.epochsEntered = i]
    IN  IF i > Len(in.flux_val) THEN acc
        ELSE IF doppler_shift(acc.wc, acc.vrads[1]).exc # "none"
        THEN [a1 EXCEPT !.exc = "DomainError", !.raisedAt = "epoch"]
        ELSE
            LET br == Brackets(in.wave, acc.wc, acc.vrads)
                a2 == [a1 EXCEPT !.brackets = br]
            IN  IF \E j \in DOMAIN br : \E k \in DOMAIN br[j] : ~br[j][k].ok
                THEN [a2 EXCEPT !.exc = "IndexError", !.raisedAt = "epoch"]
                ELSE
                    LET ccf_val == CcfVal(in.flux_val[i], br, acc.w)
                        ccf_err == CcfErrSq(in.flux_err[i], br, acc.w)
                        g == InitialGuess(ccf_val, acc.vrads)
                        a3 == [a2 EXCEPT !.ccfs = Append(@, ccf_val),
                                         !.ccf_errs = Append(@, ccf_err)]
                        a4 == [a3 EXCEPT !.guesses = Append(@, g.p0)]
                        ccf_mom == curve_fit(g.p0, in.fit[i])
                    IN  IF g.exc # "none"
                        THEN [a3 EXCEPT !.exc = g.exc, !.raisedAt = "epoch"]
                        ELSE IF ~in.fit[i].converged
                        THEN [a4 EXCEPT !.exc = "RuntimeError", !.raisedAt = "epoch"]
                        ELSE EpochLoop(in,
                                [a4 EXCEPT
                                    !.vrad_val = Append(@, ccf_mom.b),
                                    !.vrad_err = Append(@,
                                        VradErrInvSq(ccf_err, acc.vrads, ccf_val)),
                                    !.fwhm_val = Append(@, ccf_mom.c)])

\* mask columns, criteria, velocity grid, overlap filter and weights, then the
\* loop; in holds the arrays and the call's arguments
CcfCore(in) ==
    LET wc0 == MaskWave(in.mask)
        w0 == MaskWeight(in.mask, in.weight)
        idx0 == CriteriaIdx(in.mask, in.criteria)
        wc1 == IF in.criteria = <<>> THEN wc0 ELSE Filter(wc0, idx0)
        w1 == IF in.criteria = <<>> THEN w0 ELSE Filter(w0, idx0)
        vrads == Vrads(in.vgrid)
        idx == OverlapIdx(wc1, in.wave, vrads)
        wc == Filter(wc1, idx)
        w_sel == Filter(w1, idx)
        start == [NoRun EXCEPT !.maskRead = TRUE, !.wave = in.wave, !.vrads = vrads]
    IN  IF doppler_shift(wc1, SetMin(Range(vrads))).exc # "none"
        THEN [start EXCEPT !.exc = "DomainError", !.raisedAt = "prefilter"]
        ELSE EpochLoop(in, [start EXCEPT !.wc_crit = wc1, !.wc = wc, !.w_sel = w_sel,
                                         !.w = Normalize(w_sel)])

(***************************************************************************)
(* compute_vpsd (compute_vpsd.py)                                          *)
(***************************************************************************)
\* Frequencies are dyadic numbers m * 2^e with m < 2^12.  A periodogram
\* frequency is a power of two, 2^e, and the first and last frequency are
\* 50 * BinLog2Width octaves apart, so that every bin edge is a power of two
\* as well.  The code spaces the edges in log10; the spacing does not depend on
\* the base of the logarithm.
RECURSIVE Pow2(_)
Pow2(k) == IF k = 0 THEN 1 ELSE 2 * Pow2(k - 1)

Dy(m, e) == [m |-> m, e |-> e]
DLt(a, b) ==
    LET d == a.e - b.e
    IN  IF a.m = 0 THEN b.m > 0
        ELSE IF b.m = 0 THEN FALSE
        ELSE IF d >= 12 THEN FALSE
        ELSE IF d <= -12 THEN TRUE
        ELSE IF d >= 0 THEN a.m * Pow2(d) < b.m
        ELSE a.m < b.m * Pow2(-d)
DAdd(a, b) ==
    LET e == IF a.e < b.e THEN a.e ELSE b.e
    IN  Dy(a.m * Pow2(a.e - e) + b.m * Pow2(b.e - e), e)
DHalf(a) == Dy(a.m, a.e - 1)
\* the logarithm of a power of two
Log2(a) == a.e

\* the number of bin edges
NEdges == 51

\* freq_bin = 10 ** np.linspace(log10(freq[0]), log10(freq[-1]), 51)
FreqBin(freq) ==
    [i \in 1 .. NEdges |->
        Dy(1, Log2(freq[1])
              + ((i - 1) * (Log2(freq[Len(freq)]) - Log2(freq[1]))) \div (NEdges - 1))]

\* freq_avg = (freq_bin[1:] + freq_bin[:-1]) / 2
FreqAvg(freq_bin) ==
    [i \in 1 .. Len(freq_bin) - 1 |-> DHalf(DAdd(freq_bin[i + 1], freq_bin[i]))]

\* the samples of bin i: (freq > freq_bin[i]) & (freq < freq_bin[i + 1])
InBin(freq, freq_bin, i) ==
    {k \in DOMAIN freq : DLt(freq_bin[i], freq[k]) /\ DLt(freq[k], freq_bin[i + 1])}

RECURSIVE SetSum(_, _)
SetSum(f, S) ==
    IF S = {} THEN 0
    ELSE LET k == CHOOSE x \in S : TRUE IN f[k] + SetSum(f, S \ {k})

\* vps_avg[i]: np.nan for an empty bin, else np.mean of the bin's power
VpsAvg(freq, vps, freq_bin) ==
    [i \in 1 .. Len(freq_bin) - 1 |->
        LET bin == InBin(freq, freq_bin, i)
        IN  IF Cardinality(bin) = 0 THEN NaN
            ELSE Rat(SetSum(vps, bin), Cardinality(bin))]

\* np.delete(a, np.where(i_delete))
Delete(a, i_delete) == Filter(a, [i \in DOMAIN a |-> ~i_delete[i]])

\* a compute_vpsd that deletes the empty bins from vps_avg and forgets freq_avg
VpsdOfUnaligned(pg) ==
    LET freq_bin == FreqBin(pg.freq)
        vps_all == VpsAvg(pg.freq, pg.vps, freq_bin)
        i_delete == [i \in DOMAIN vps_all |-> IsNaN(vps_all[i])]
        vps_avg == Delete(vps_all, i_delete)
    IN  [present |-> TRUE,
         freq |-> pg.freq, vps |-> pg.vps,
         vpsd |-> [k \in DOMAIN pg.vps |-> RDiv(RInt(pg.vps[k]), RInt(pg.win_area))],
         phase |-> pg.phase,
         freq_avg |-> FreqAvg(freq_bin), vps_avg |-> vps_avg,
         vpsd_avg |-> [k \in DOMAIN vps_avg |-> RDiv(vps_avg[k], RInt(pg.win_area))]]

\* the dictionary compute_vpsd stores in star.vpsd for a periodogram result
VpsdOf(pg) ==
    LET freq_bin == FreqBin(pg.freq)
        vps_all == VpsAvg(pg.freq, pg.vps, freq_bin)
        i_delete == [i \in DOMAIN vps_all |-> IsNaN(vps_all[i])]
        freq_avg == Delete(FreqAvg(freq_bin), i_delete)
        vps_avg == Delete(vps_all, i_delete)
    IN  [present |-> TRUE,
         freq |-> pg.freq, vps |-> pg.vps,
         vpsd |-> [k \in DOMAIN pg.vps |-> RDiv(RInt(pg.vps[k]), RInt(pg.win_area))],
         phase |-> pg.phase,
         freq_avg |-> freq_avg, vps_avg |-> vps_avg,
         vpsd_avg |-> [k \in DOMAIN vps_avg |-> RDiv(vps_avg[k], RInt(pg.win_area))]]

\* The periodogram engine is a collaborator outside the repository's sources:
\* a deterministic function of the RV series.  This stand-in puts the power of
\* the series on four frequencies.
gls_periodogram(time, y, sig) ==
    [freq |-> <<Dy(1, 0), Dy(1, 1), Dy(1, 2), Dy(1, (NEdges - 1) * BinLog2Width)>>,
     vps |-> [k \in 1 .. 4 |-> y[((k - 1) % Len(y)) + 1] * y[((k - 1) % Len(y)) + 1] + k],
     phase |-> "phi",
     win_area |-> Len(time)]

(***************************************************************************)
(* plot_vpsd_components (plot_vpsd_components.py): the sum of components   *)
(***************************************************************************)
RECURSIVE RPow(_, _)
RPow(x, k) == IF k = 0 THEN RInt(1) ELSE RMul(x, RPow(x, k - 1))

DyToRat(a) == IF a.e >= 0 THEN Rat(a.m * Pow2(a.e), 1) ELSE Rat(a.m, Pow2(-a.e))

\* vpsd_comp after the three `if type == ...` blocks of one loop pass; prev is
\* the value the variable held before the pass
VpsdComp(comp_dict, freq, prev) ==
    LET coef_val == comp_dict.coef_val
        type == comp_dict.type
    IN  IF type = "Constant"
        THEN [k \in DOMAIN freq |-> RInt(coef_val[1])]
        ELSE IF type = "Lorentz"
        THEN [k \in DOMAIN freq |->
                RDiv(RInt(coef_val[1] * coef_val[2] * coef_val[2]),
                     RAdd(RInt(coef_val[2] * coef_val[2]),
                          RPow(RSub(DyToRat(freq[k]), RInt(coef_val[3])), 2)))]
        ELSE IF type = "Harvey"
        THEN [k \in DOMAIN freq |->
                RDiv(RInt(coef_val[1]),
                     RAdd(RInt(1),
                          RPow(RMul(RInt(coef_val[2]), DyToRat(freq[k])), coef_val[3])))]
        ELSE prev

\* a loop that assigns the component to vpsd_tot instead of adding it
RECURSIVE VpsdTotAssigns(_, _, _, _)
VpsdTotAssigns(comps, freq, tot, prev) ==
    IF Len(comps) = 0 THEN tot
    ELSE LET vpsd_comp == VpsdComp(comps[1], freq, prev)
         IN  VpsdTotAssigns(Tail(comps), freq, vpsd_comp, vpsd_comp)

\* vpsd_tot after the loop over star.vpsd_components.keys(), in dictionary order
RECURSIVE VpsdTot(_, _, _, _)
VpsdTot(comps, freq, tot, prev) ==
    IF Len(comps) = 0 THEN tot
    ELSE LET vpsd_comp == VpsdComp(comps[1], freq, prev)
         IN  VpsdTot(Tail(comps), freq,
                     [k \in DOMAIN freq |-> RAdd(tot[k], vpsd_comp[k])], vpsd_comp)

\* star.vpsd_components[label] = {...}: a new key goes last, a known key keeps
\* its place
DictSet(comps, label, value) ==
    IF \E q \in DOMAIN comps : comps[q].label = label
    THEN [q \in DOMAIN comps |-> IF comps[q].label = label THEN value ELSE comps[q]]
    ELSE Append(comps, value)

(***************************************************************************)
(* State                                                                   *)
(***************************************************************************)
VARIABLES
    spec,             \* data.spec
    vrad,             \* data.vrad
    ccf,              \* data.ccf
    vpsd,             \* star.vpsd
    vpsd_components,  \* star.vpsd_components, in insertion order
    pgram,            \* the result the periodogram engine returned last
    call,             \* the last call: its name, the exception it raised,
                      \* and data.vrad and data.ccf as they were on entry
    run,              \* what the last call did, if it was compute_vrad_ccf
    fig               \* vpsd_tot of the figure the last call returned, if any

vars == <<spec, vrad, ccf, vpsd, vpsd_components, pgram, call, run, fig>>

\* the empty dictionary {}
EmptyDict == [present |-> FALSE]
NoCall == [op |-> "none", exc |-> "none", vrad_before |-> EmptyDict, ccf_before |-> EmptyDict]
Called(op, exc) == [op |-> op, exc |-> exc, vrad_before |-> vrad, ccf_before |-> ccf]

Init ==
    /\ spec = EmptyDict
    /\ vrad = EmptyDict
    /\ ccf = EmptyDict
    /\ vpsd = EmptyDict
    /\ vpsd_components = <<>>
    /\ pgram = EmptyDict
    /\ call = NoCall
    /\ run = NoRun
    /\ fig = <<>>

(***************************************************************************)
(* Data.add_spec, Data.add_vrad (data.py lines 26-82)                      *)
(***************************************************************************)
AddSpec(time, wave, flux_val, flux_err) ==
    /\ spec' = [present |-> TRUE, time |-> time, wave |-> wave,
                flux_val |-> flux_val, flux_err |-> flux_err, time_unit |-> "d"]
    /\ call' = Called("add_spec", "none")
    /\ run' = NoRun
    /\ fig' = <<>>
    /\ UNCHANGED <<vrad, ccf, vpsd, vpsd_components, pgram>>

AddVrad(time, vrad_val, vrad_err) ==
    /\ vrad' = [present |-> TRUE, time |-> time, vrad_val |-> vrad_val,
                vrad_err |-> vrad_err, time_unit |-> "d", vrad_unit |-> "km/s",
                method |-> "given", mask |-> "none"]
    /\ call' = Called("add_vrad", "none")
    /\ run' = NoRun
    /\ fig' = <<>>
    /\ UNCHANGED <<spec, ccf, vpsd, vpsd_components, pgram>>

(***************************************************************************)
(* Data.compute_vrad_ccf (data.py lines 84-256)                            *)
(***************************************************************************)
\* lines 121-256 on arrays that passed the guard; the RV series and the FWHM
\* series are saved only when the loop ran to its end
CcfBody(d, mask, weight, criteria, vgrid, fit) ==
    LET r == CcfCore([time |-> d.time.rows[1], wave |-> d.wave.rows[1],
                      flux_val |-> d.flux_val.rows, flux_err |-> d.flux_err.rows,
                      mask |-> mask.rows, weight |-> weight, criteria |-> criteria,
                      vgrid |-> vgrid, fit |-> fit])
    IN  /\ run' = r
        /\ call' = Called("compute_vrad_ccf", r.exc)
        /\ IF r.exc = "none"
           THEN /\ vrad' = [present |-> TRUE, time |-> d.time.rows[1],
                            vrad_val |-> r.vrad_val, vrad_err |-> r.vrad_err,
                            time_unit |-> d.time_unit, vrad_unit |-> "km/s",
                            method |-> "CCF", mask |-> mask.name]
                /\ ccf' = [present |-> TRUE, time |-> d.time.rows[1],
                           fwhm_val |-> r.fwhm_val]
           ELSE UNCHANGED <<vrad, ccf>>

ComputeVradCcf(mask, weight, criteria, vgrid, fit) ==
    /\ IF InputGuard(spec) # "none"
       THEN /\ run' = [NoRun EXCEPT !.exc = InputGuard(spec), !.raisedAt = "guard"]
            /\ call' = Called("compute_vrad_ccf", InputGuard(spec))
            /\ UNCHANGED <<vrad, ccf>>
       ELSE CcfBody(spec, mask, weight, criteria, vgrid, fit)
    /\ fig' = <<>>
    /\ UNCHANGED <<spec, vpsd, vpsd_components, pgram>>

(***************************************************************************)
(* compute_vpsd (compute_vpsd.py lines 8-37)                               *)
(***************************************************************************)
\* a compute_vpsd that keeps a VPSD it has already computed
VpsdBodyKeepsOld(pg) ==
    /\ pgram' = pg
    /\ vpsd' = IF vpsd.present THEN vpsd ELSE VpsdOf(pg)
    /\ call' = Called("compute_vpsd", "none")

\* lines 16-37 on the periodogram result pg
VpsdBody(pg) ==
    /\ pgram' = pg
    /\ vpsd' = VpsdOf(pg)
    /\ call' = Called("compute_vpsd", "none")

ComputeVpsd ==
    /\ IF ~vrad.present
       THEN /\ call' = Called("compute_vpsd", "KeyError")
            /\ UNCHANGED <<pgram, vpsd>>
       ELSE VpsdBody(gls_periodogram(vrad.time, vrad.vrad_val, vrad.vrad_err))
    /\ run' = NoRun
    /\ fig' = <<>>
    /\ UNCHANGED <<spec, vrad, ccf, vpsd_components>>

(***************************************************************************)
(* star.add_vpsd_components and plot_vpsd_components                       *)
(***************************************************************************)
\* add_vpsd_components is not among the sources: it stores a named component
\* (type and coefficients) in star.vpsd_components
AddVpsdComponents(label, type, coef_val) ==
    /\ Len(DictSet(vpsd_components, label, label)) <= MaxComps
    /\ vpsd_components' = DictSet(vpsd_components, label,
                                  [label |-> label, type |-> type, coef_val |-> coef_val])
    /\ call' = Called("add_vpsd_components", "none")
    /\ run' = NoRun
    /\ fig' = <<>>
    /\ UNCHANGED <<spec, vrad, ccf, vpsd, pgram>>

\* plot_vpsd_components.py lines 9-96: the figure's "Total" curve
PlotVpsdComponents ==
    /\ IF ~vpsd.present \/ ~vrad.present
       THEN /\ call' = Called("plot_vpsd_components", "KeyError")
            /\ fig' = <<>>
       ELSE /\ fig' = VpsdTot(vpsd_components, vpsd.freq,
                              [k \in DOMAIN vpsd.freq |-> RInt(0)], <<>>)
            /\ call' = Called("plot_vpsd_components", "none")
    /\ run' = NoRun
    /\ UNCHANGED <<spec, vrad, ccf, vpsd, vpsd_components, pgram>>

(***************************************************************************)
(* Inputs                                                                  *)
(***************************************************************************)
\* arguments of add_spec: absent, a list, arrays of one element (zero or not)
\* and arrays of two epochs and seven pixels
Flat == <<5, 5, 5, 5, 5, 5, 5>>
Narrow == <<5, 5, 5, 1, 5, 5, 5>>
Wide == <<5, 4, 2, 1, 2, 4, 5>>
Slope == <<1, 1, 3, 5, 5, 5, 5>>
Ones == <<1, 1, 1, 1, 1, 1, 1>>
Pixels == <<7, 8, 9, 10, 11, 12, 13>>
Uneven == <<7, 8, 10, 11, 12, 14, 15>>

Times == {None, NdArray(<<<<1>>>>), NdArray(<<<<1, 2>>>>)}
Waves == {NdArray(<<<<10>>>>), NdArray(<<Pixels>>)}
FluxVals == {NdArray(<<<<5>>>>), NdArray(<<<<0>>>>), NdArray(<<Narrow, Wide>>),
             PyList(<<<<5>>>>)}
FluxErrs == {None, NdArray(<<<<1>>>>), NdArray(<<Ones, Ones>>)}

\* arguments of add_vrad
RvSeries == {<<1, 2>>, <<2, 1>>, <<0, 3>>}

\* line masks: rows of the CSV file with the columns wave, weight, crit_a, crit_b
Line(wave, weight, a, b) == [wave |-> wave, weight |-> weight, crit |-> [a |-> a, b |-> b]]
Masks ==
    {[name |-> "one.csv", rows |-> <<Line(10, 1, TRUE, TRUE)>>],
     [name |-> "three.csv", rows |-> <<Line(9, 1, TRUE, TRUE), Line(10, 2, TRUE, FALSE),
                                       Line(11, 1, FALSE, TRUE)>>],
     [name |-> "zero.csv", rows |-> <<Line(10, 0, TRUE, TRUE), Line(30, 2, TRUE, TRUE)>>],
     [name |-> "far.csv", rows |-> <<Line(30, 1, TRUE, FALSE), Line(40, 1, TRUE, FALSE)>>],
     [name |-> "edge.csv", rows |-> <<Line(8, 3, TRUE, TRUE), Line(12, 1, TRUE, TRUE),
                                      Line(13, 2, TRUE, TRUE)>>]}
Weights == {"None", "weight"}
Criteria == {<<>>, <<"a">>, <<"a", "b">>}
\* velocity grids [start, stop, step] of five points
VGrids == {<<-2, 2, 1>>, <<-4, 0, 1>>, <<-4, 4, 2>>}
\* what curve_fit does in the first and in the second epoch
Fits == {<<FitFinds(0), FitFinds(0)>>, <<FitFinds(1), FitFinds(0)>>,
         <<FitFails, FitFinds(0)>>, <<FitFinds(0), FitFails>>}
\* the mask files and arguments used in a session
SessionMasks == {m \in Masks : m.name \in {"one.csv", "far.csv"}}
SessionCriteria == {<<>>, <<"a", "b">>}

\* spectra for the lines after the guard: one or two epochs on seven pixels
CcfSpectra ==
    {[present |-> TRUE, time |-> NdArray(<<[i \in 1 .. Len(f) |-> i]>>),
      wave |-> NdArray(<<w>>), flux_val |-> NdArray(f),
      flux_err |-> NdArray([i \in 1 .. Len(f) |-> Ones]), time_unit |-> "d"] :
        w \in {Pixels, Uneven},
        f \in {<<Flat>>, <<Narrow>>, <<Wide>>, <<Slope>>, <<Narrow, Wide>>, <<Wide, Flat>>}}

\* the set S in increasing order
RECURSIVE SortedSeq(_)
SortedSeq(S) == IF S = {} THEN <<>> ELSE <<SetMin(S)>> \o SortedSeq(S \ {SetMin(S)})

\* periodogram results: strictly increasing powers of two from 2^e0 to
\* 2^(e0 + 50 * BinLog2Width), with up to MaxInterior samples in between, some
\* inside a bin and some on a bin edge
Span == (NEdges - 1) * BinLog2Width
InteriorOffsets == {1, 2, BinLog2Width, BinLog2Width + 1, Span - BinLog2Width, Span - 1}
PeriodogramsOn(S) ==
    {[freq |-> [k \in 1 .. Cardinality(S) + 2 |->
                    Dy(1, e0 + SortedSeq({0} \cup S \cup {Span})[k])],
      vps |-> p, phase |-> "phi", win_area |-> a] :
        e0 \in {0, -2}, a \in {1, 2}, p \in [1 .. Cardinality(S) + 2 -> {1, 4}]}
Periodograms ==
    UNION {PeriodogramsOn(S) :
            S \in {T \in SUBSET InteriorOffsets : Cardinality(T) <= MaxInterior}}

\* components and the frequencies the figure is drawn on
Labels == {"a", "b", "c", "d"}
Components == {<<"Constant", <<2>>>>, <<"Lorentz", <<1, 1, 0>>>>, <<"Lorentz", <<3, 2, 1>>>>,
               <<"Harvey", <<1, 1, 2>>>>, <<"Harvey", <<2, 3, 1>>>>}
PlotFreqs == {<<Dy(0, 0), Dy(1, 0), Dy(1, 1)>>, <<Dy(1, -1), Dy(3, 0)>>}

(***************************************************************************)
(* Specifications                                                          *)
(***************************************************************************)
\* a session: spectra and RV series are added, RVs and the VPSD are computed
Next ==
    \/ \E t \in Times, w \in Waves, f \in FluxVals, e \in FluxErrs : AddSpec(t, w, f, e)
    \/ \E y \in RvSeries : AddVrad(<<1, 2>>, y, "None")
    \/ \E m \in SessionMasks, cr \in SessionCriteria, ft \in Fits :
            ComputeVradCcf(m, "None", cr, <<-2, 2, 1>>, ft)
    \/ ComputeVpsd

Spec == Init /\ [][Next]_vars

\* compute_vrad_ccf from line 121 on, on arrays of any shape (the guard's truth
\* test); a call reads nothing an earlier call wrote, so one call is made
InitCCF ==
    /\ spec \in CcfSpectra
    /\ vrad = EmptyDict
    /\ ccf = EmptyDict
    /\ vpsd = EmptyDict
    /\ vpsd_components = <<>>
    /\ pgram = EmptyDict
    /\ call = NoCall
    /\ run = NoRun
    /\ fig = <<>>

PastGuard(mask, weight, criteria, vgrid, fit) ==
    /\ call.op = "none"
    /\ CcfBody(spec, mask, weight, criteria, vgrid, fit)
    /\ UNCHANGED <<spec, vpsd, vpsd_components, pgram, fig>>

NextCCF ==
    \E m \in Masks, wt \in Weights, cr \in Criteria, g \in VGrids, ft \in Fits :
        PastGuard(m, wt, cr, g, ft)

SpecCCF == InitCCF /\ [][NextCCF]_vars

\* compute_vpsd from line 16 on, on any periodogram result of the engine
InitVPSD ==
    /\ spec = EmptyDict
    /\ vrad = EmptyDict
    /\ ccf = EmptyDict
    /\ vpsd = EmptyDict
    /\ vpsd_components = <<>>
    /\ pgram \in Periodograms
    /\ call = NoCall
    /\ run = NoRun
    /\ fig = <<>>

BinPeriodogram ==
    /\ call.op = "none"
    /\ VpsdBody(pgram)
    /\ UNCHANGED <<spec, vrad, ccf, vpsd_components, run, fig>>

NextVPSD == BinPeriodogram

SpecVPSD == InitVPSD /\ [][NextVPSD]_vars

\* components are added to a star whose VPSD is on one of PlotFreqs, and plotted
InitComp ==
    /\ spec = EmptyDict
    /\ vrad = [present |-> TRUE, time |-> <<1, 2>>, vrad_val |-> <<1, 2>>,
               vrad_err |-> "None", time_unit |-> "d", vrad_unit |-> "km/s",
               method |-> "given", mask |-> "none"]
    /\ ccf = EmptyDict
    /\ \E f \in PlotFreqs :
            vpsd = [present |-> TRUE, freq |-> f, vps |-> <<>>, vpsd |-> <<>>,
                    phase |-> "phi", freq_avg |-> <<>>, vps_avg |-> <<>>, vpsd_avg |-> <<>>]
    /\ vpsd_components = <<>>
    /\ pgram = EmptyDict
    /\ call = NoCall
    /\ run = NoRun
    /\ fig = <<>>

NextComp ==
    \/ \E l \in Labels, cp \in Components : AddVpsdComponents(l, cp[1], cp[2])
    \/ PlotVpsdComponents

SpecComp == InitComp /\ [][NextComp]_vars


(***************************************************************************)
(* Properties of the session (Spec)                                        *)
(***************************************************************************)
ComputeVradCcfReturned == call.op = "compute_vrad_ccf"
DataUntouched == vrad = call.vrad_before /\ ccf = call.ccf_before

\* the overlap filter was reached with lines left by the criteria and dropped
\* every one of them
OverlapDroppedAll ==
    ComputeVradCcfReturned /\ run.maskRead /\ Len(run.wc_crit) > 0 /\ Len(run.wc) = 0

\* C1: when the overlap filter drops every mask line, compute_vrad_ccf fails
\* with a domain error raised before the loop over the epochs starts: no
\* epoch is entered, no CCF is built, no fit is attempted, and data.vrad and
\* data.ccf are as they were.
C1_EmptyMaskFailsBeforeLoop ==
    OverlapDroppedAll =>
        /\ call.exc = "DomainError"
        /\ run.raisedAt = "prefilter"
        /\ run.epochsEntered = 0
        /\ run.ccfs = <<>>
        /\ run.guesses = <<>>
        /\ DataUntouched

\* one of the four spectral arrays is absent: add_spec was never called, or
\* it was called with None for the array
SpectralArrayAbsent ==
    \/ ~spec.present
    \/ \E k \in DOMAIN SpecKeys : spec[SpecKeys[k]].kind = "None"

\* C2: compute_vrad_ccf called while one of time, wave, flux_val, flux_err is
\* absent fails with "Spectral data must be added first.": no mask is read,
\* no epoch is processed, data.vrad and data.ccf keep their values.
C2_AbsentIsValidationError ==
    (ComputeVradCcfReturned /\ SpectralArrayAbsent) =>
        /\ call.exc = "ValueError: Spectral data must be added first."
        /\ ~run.maskRead
        /\ run.epochsEntered = 0
        /\ DataUntouched

\* all four spectral arrays are non-empty numpy arrays
AllArraysGiven ==
    /\ spec.present
    /\ \A k \in DOMAIN SpecKeys :
            spec[SpecKeys[k]].kind = "ndarray" /\ Size(spec[SpecKeys[k]]) >= 1

\* C10: with all four arrays given as non-empty numpy arrays, the input guard
\* of compute_vrad_ccf raises nothing and the mask is read.
C10_GuardAcceptsArrays ==
    (ComputeVradCcfReturned /\ AllArraysGiven) =>
        run.raisedAt # "guard" /\ run.maskRead

\* the VPSD of the RV series now in data.vrad
VpsdOfCurrentSeries == VpsdOf(gls_periodogram(vrad.time, vrad.vrad_val, vrad.vrad_err))

\* C3 as stated: whenever star.vpsd is non-empty it is the VPSD of the RV
\* series currently in data.vrad.
C3_VpsdIsOfCurrentSeries == vpsd.present => vpsd = VpsdOfCurrentSeries

\* C3 as amended: star.vpsd is written by compute_vpsd alone.  Whenever it is
\* non-empty it is the VPSD of the periodogram the engine returned to the last
\* compute_vpsd, and when compute_vpsd has just returned, that periodogram is
\* the one of the RV series in data.vrad.
C3_VpsdIsOfLastComputeVpsd ==
    vpsd.present =>
        /\ vpsd = VpsdOf(pgram)
        /\ (call.op = "compute_vpsd" /\ call.exc = "none") => vpsd = VpsdOfCurrentSeries

\* compute_vpsd has run, the RV series was replaced afterwards, and star.vpsd
\* is still that of the replaced series
C3_StaleVpsd ==
    /\ vpsd.present
    /\ call.op = "add_vrad"
    /\ vpsd = VpsdOf(pgram)
    /\ vpsd # VpsdOfCurrentSeries

(***************************************************************************)
(* Properties of the binning (SpecVPSD)                                    *)
(***************************************************************************)
\* the bins that hold a sample, in increasing order, and a bin's samples
BinSamples(i) == InBin(vpsd.freq, FreqBin(vpsd.freq), i)
NonEmptyBins == SortedSeq({i \in 1 .. NEdges - 1 : BinSamples(i) # {}})

\* C4: compute_vpsd returns at most 50 averaged bins; freq_avg, vps_avg and
\* vpsd_avg have one entry per non-empty bin; entry k of each belongs to the
\* k-th non-empty bin: freq_avg[k] lies between that bin's edges and
\* vpsd_avg[k] is the mean power of that bin's samples over the window area.
C4_BinnedArraysAligned ==
    vpsd.present =>
        /\ Len(vpsd.freq_avg) <= NEdges - 1
        /\ Len(vpsd.freq_avg) = Len(NonEmptyBins)
        /\ Len(vpsd.vps_avg) = Len(NonEmptyBins)
        /\ Len(vpsd.vpsd_avg) = Len(NonEmptyBins)
        /\ \A k \in DOMAIN NonEmptyBins :
            LET i == NonEmptyBins[k]
                power == SetSum(vpsd.vps, BinSamples(i))
                count == Cardinality(BinSamples(i))
            IN  /\ ~DLt(vpsd.freq_avg[k], FreqBin(vpsd.freq)[i])
                /\ ~DLt(FreqBin(vpsd.freq)[i + 1], vpsd.freq_avg[k])
                /\ REq(RMul(vpsd.vps_avg[k], RInt(count)), RInt(power))
                /\ REq(RMul(vpsd.vpsd_avg[k], RInt(count * pgram.win_area)), RInt(power))

\* a binned VPSD with empty bins removed, two bins kept, one of them with
\* more than one sample, and a window area other than 1
C4_TwoBinsKept ==
    /\ vpsd.present
    /\ Len(vpsd.freq_avg) = 2
    /\ \E k \in DOMAIN NonEmptyBins : Cardinality(BinSamples(NonEmptyBins[k])) = 2
    /\ pgram.win_area = 2
    /\ vpsd.vps_avg[1] # vpsd.vps_avg[2]

\* C8: every periodogram sample, the first, the last and those on a bin edge
\* included, is counted in exactly one bin's average.
C8_EverySampleInOneBin ==
    vpsd.present =>
        \A k \in DOMAIN vpsd.freq :
            Cardinality({i \in 1 .. NEdges - 1 : k \in BinSamples(i)}) = 1

(***************************************************************************)
(* Properties of the composite density (SpecComp)                          *)
(***************************************************************************)
\* a component's own density at the frequency f, as the claim writes it
OwnDensity(comp, f) ==
    LET c0 == RInt(comp.coef_val[1])
        c1 == RInt(comp.coef_val[2])
        c2 == comp.coef_val[3]
    IN  CASE comp.type = "Constant" -> c0
          [] comp.type = "Lorentz" ->
                RDiv(RMul(c0, RMul(c1, c1)),
                     RAdd(RMul(c1, c1), RMul(RSub(f, RInt(c2)), RSub(f, RInt(c2)))))
          [] comp.type = "Harvey" ->
                RDiv(c0, RAdd(RInt(1), RPow(RMul(c1, f), c2)))

\* the sum of the own densities of the components with index in I
RECURSIVE DensitySum(_, _)
DensitySum(I, f) ==
    IF I = {} THEN RInt(0)
    ELSE LET q == CHOOSE x \in I : TRUE
         IN  RAdd(OwnDensity(vpsd_components[q], f), DensitySum(I \ {q}, f))

\* star.vpsd_components in every other iteration order
Reorderings ==
    LET n == Len(vpsd_components)
    IN  {[q \in 1 .. n |-> vpsd_components[pi[q]]] :
            pi \in {f \in [1 .. n -> 1 .. n] : \A a, b \in 1 .. n : f[a] = f[b] => a = b}}

PlotReturned == call.op = "plot_vpsd_components" /\ call.exc = "none"
IsComponent(cd, type, coef_val) == cd.type = type /\ cd.coef_val = coef_val
ConstantAndLorentz ==
    /\ Len(vpsd_components) = 2
    /\ \E q \in 1 .. 2 : IsComponent(vpsd_components[q], "Constant", <<2>>)
    /\ \E q \in 1 .. 2 : IsComponent(vpsd_components[q], "Lorentz", <<1, 1, 0>>)

\* C6: vpsd_tot is, at every frequency, the sum of the listed components' own
\* densities, and the same in every iteration order of the components; for
\* Constant(2) and Lorentz(1, 1, 0) it is 3 at f = 0.
C6_CompositeIsSumInAnyOrder ==
    PlotReturned =>
        /\ \A k \in DOMAIN vpsd.freq :
                REq(fig[k], DensitySum(DOMAIN vpsd_components, DyToRat(vpsd.freq[k])))
        /\ \A order \in Reorderings :
                VpsdTot(order, vpsd.freq, [k \in DOMAIN vpsd.freq |-> RInt(0)], <<>>) = fig
        /\ ConstantAndLorentz =>
                \A k \in DOMAIN vpsd.freq : vpsd.freq[k] = Dy(0, 0) => fig[k] = RInt(3)

\* the figure of Constant(2) and Lorentz(1, 1, 0) on frequencies starting at 0
C6_ConstantPlusLorentzAtZero ==
    /\ PlotReturned
    /\ ConstantAndLorentz
    /\ vpsd.freq[1] = Dy(0, 0)
    /\ fig[1] = RInt(3)

(***************************************************************************)
(* Properties of the CCF builder and the initial guess (SpecCCF)           *)
(***************************************************************************)
\* the call got as far as normalising the weights of a non-empty filtered mask
WeightsNormalized == ComputeVradCcfReturned /\ run.maskRead /\ Len(run.w) > 0

StrictlyIncreasing(a) == \A p, q \in DOMAIN a : p < q => a[p] < a[q]

\* C9: on a strictly increasing wavelength grid and a mask of positive
\* wavelengths, at every trial velocity every surviving line has
\* 0 <= i_l = i_r - 1, i_r <= len(wave) - 1, wave[i_l] <= shifted centre <
\* wave[i_r], 0 <= f_r < 1 and f_l = 1 - f_r.
C9_BracketsInsideSpectrum ==
    (/\ ComputeVradCcfReturned
     /\ StrictlyIncreasing(run.wave)
     /\ \A k \in DOMAIN run.wc : RLt(RInt(0), run.wc[k])) =>
        \A j \in DOMAIN run.brackets : \A k \in DOMAIN run.brackets[j] :
            LET b == run.brackets[j][k]
            IN  /\ REq(b.x, RMul(run.wc[k], Rat(c + run.vrads[j], c)))
                /\ 0 <= b.i_l
                /\ b.i_l = b.i_r - 1
                /\ b.i_r <= Len(run.wave) - 1
                /\ RLe(RInt(run.wave[b.i_l + 1]), b.x)
                /\ RLt(b.x, RInt(run.wave[b.i_r + 1]))
                /\ RLe(RInt(0), b.f_r)
                /\ RLt(b.f_r, RInt(1))
                /\ REq(b.f_l, RSub(RInt(1), b.f_r))

\* a call that ran to its end with two lines bracketed at five velocities,
\* one shifted centre falling between two pixels and one onto a pixel
C9_TwoLinesBracketed ==
    /\ ComputeVradCcfReturned
    /\ call.exc = "none"
    /\ Len(run.brackets) = 5
    /\ Len(run.wc) = 2
    /\ \E j \in DOMAIN run.brackets : RLt(RInt(0), run.brackets[j][1].f_r)
    /\ \E j \in DOMAIN run.brackets : run.brackets[j][2].f_r = RInt(0)

====
